---------------------------- MODULE Spec2Model ----------------------------
(***************************************************************************)
(* Flash-UCBot: the session loop of main.py (main, register_transaction_   *)
(* commands, load_all_commands, the entry point) and the SQLite            *)
(* transaction store of firestoredb.py.                                    *)
(***************************************************************************)
EXTENDS Integers, Sequences, FiniteSets, TLC

(***************************************************************************)
(* Bounds of the model and constants of the program.                       *)
(***************************************************************************)
\* main.py:282  max_retries = 5
max_retries == 5
\* main.py:370  await asyncio.sleep(5)
BackoffSeconds == 5
\* the largest e.seconds a FloodWaitError carries in the model
MaxFloodSeconds == 2
\* successful connections explored in one process
MaxConnects == 2
\* the latest reading of the wall clock
MaxClock == 1
\* a connect, execute or commit is made to raise only while fewer than this many
\* sqlite3 calls have raised in the run
MaxFaults == 1
\* times the schema-creation block of init_database is made to raise
MaxInitFaults == 2

FloodSeconds == 1..MaxFloodSeconds

VARIABLES
    pc,           \* main(): the statement the coroutine is at
    retry_count,  \* main.py:281
    wait_time,    \* main.py:344
    exc,          \* the exception raised in the try body, kept until the next attempt
    connected,    \* client.is_connected()
    handlers,     \* the client's event handlers: pattern -> number of bindings
    lastLog,      \* the last record written through logger
    slept,        \* seconds of the asyncio.sleep completed since the last failure
    connects,     \* successful client.start() calls of this process
    apiThreads,   \* threads started with target=run_api
    event_builders, \* the client's bindings in the order client.on added them
    loadResult,   \* load_all_commands: its locals when it has just returned
    dispatched,   \* the message routed last while running, and the handlers run
    failures      \* rate-limit and unexpected failures since client.start() last
                  \* succeeded

sessionVars == <<pc, retry_count, wait_time, exc, connected, handlers, lastLog,
                 slept, connects, apiThreads, event_builders, loadResult,
                 dispatched, failures>>

VARIABLES
    imported,        \* firestoredb has been imported (its line 241 has run)
    db_initialized,  \* firestoredb.py:30  _db_initialized
    init_lock,       \* firestoredb.py:29  _init_lock: the thread holding it
    schema,          \* the transactions table and its index exist in the file
    rows,            \* the committed rows of the transactions table
    writer,          \* the thread whose connection holds SQLite's write lock
    pending,         \* the uncommitted change of the writer's transaction
    conn,            \* firestoredb.py:28  _thread_local.connection, per slot of
                     \* the thread-local storage
    tpc,             \* per thread: the statement it is at
    op,              \* per thread: the call in progress and its arguments (callTime:
                     \* the clock when save_transaction was entered, kept until its
                     \* timestamp is taken)
    last,            \* the store call that completed last, and what it returned
    lastInit,        \* what the init_database() call that returned last returned
    clock,           \* datetime.utcnow()
    initRuns,        \* times the schema-creation block was entered
    initOk,          \* times the schema-creation block ran to its end
    faults,          \* storage failures so far
    created,         \* per thread: connections its get_connection calls opened
    using            \* per thread: the connection get_connection returned to the
                     \* call in progress (conn of firestoredb.py:68)

storeVars == <<imported, db_initialized, init_lock, schema, rows, writer, pending,
               conn, tpc, op, last, lastInit, clock, initRuns, initOk, faults,
               created, using>>

vars == <<sessionVars, storeVars>>

(***************************************************************************)
(* Exceptions the try body of main() distinguishes (main.py:342-365).      *)
(* CancelledError is how asyncio delivers a shutdown signal to a task that *)
(* is suspended in an await; it derives from BaseException.                *)
(***************************************************************************)
NoExc == [cls |-> "None", seconds |-> 0]

FloodWaitError(s) == [cls |-> "FloodWaitError", seconds |-> s]

AuthKeyError == [cls |-> "AuthKeyError", seconds |-> 0]

SessionPasswordNeededError == [cls |-> "SessionPasswordNeededError", seconds |-> 0]

KeyboardInterrupt == [cls |-> "KeyboardInterrupt", seconds |-> 0]

CancelledError == [cls |-> "CancelledError", seconds |-> 0]

UnexpectedError == [cls |-> "Exception", seconds |-> 0]

\* what os.listdir, os.makedirs and open raise (main.py:220-230)
OSError == [cls |-> "OSError", seconds |-> 0]

\* classes the clause of main.py:365 catches: the subclasses of Exception that no
\* earlier clause names
CaughtByException == {"Exception", "OSError"}

ProviderErrors ==
    {FloodWaitError(s) : s \in FloodSeconds}
        \cup {AuthKeyError, SessionPasswordNeededError, UnexpectedError}

ShutdownSignals == {KeyboardInterrupt, CancelledError}

Raisable == ProviderErrors \cup ShutdownSignals

AuthFailures == {"AuthKeyError", "SessionPasswordNeededError"}

(***************************************************************************)
(* Text.  A message or a prefix is the sequence of its characters, so that *)
(* letter case is something a matcher can get wrong.                       *)
(***************************************************************************)
LowerLetters == {"a", "c", "e", "g", "h", "k", "l", "m", "n", "p", "x"}

UpperLetters == {"A", "C", "E", "G", "H", "K", "L", "M", "N", "P", "X"}

Whitespace == {" "}

Alphabet == LowerLetters \cup UpperLetters \cup Whitespace \cup {"/", ".", "!"}

\* str.upper() and str.lower() on one character
ToUpper(c) ==
    CASE c = "a" -> "A" [] c = "c" -> "C" [] c = "e" -> "E" [] c = "g" -> "G"
      [] c = "h" -> "H" [] c = "k" -> "K" [] c = "l" -> "L" [] c = "m" -> "M"
      [] c = "n" -> "N" [] c = "p" -> "P" [] c = "x" -> "X" [] OTHER -> c

ToLower(c) ==
    CASE c = "A" -> "a" [] c = "C" -> "c" [] c = "E" -> "e" [] c = "G" -> "g"
      [] c = "H" -> "h" [] c = "K" -> "k" [] c = "L" -> "l" [] c = "M" -> "m"
      [] c = "N" -> "n" [] c = "P" -> "p" [] c = "X" -> "x" [] OTHER -> c

\* str.isalpha() on one character
IsAlpha(c) == c \in LowerLetters \cup UpperLetters

(***************************************************************************)
(* A regular expression of the shape the program uses: a sequence of       *)
(* character classes, each taken once or (plus) one or more times, matched *)
(* against the whole text (the patterns begin with ^ and end with $).      *)
(***************************************************************************)
Once(cs) == [chars |-> cs, plus |-> FALSE]

OneOrMore(cs) == [chars |-> cs, plus |-> TRUE]

\* the characters of txt, each matched literally and in its own case
Literal(txt) == [i \in 1..Len(txt) |-> Once({txt[i]})]

RECURSIVE MatchFrom(_, _, _, _)
MatchFrom(re, i, txt, j) ==
    IF i > Len(re) THEN j > Len(txt)
    ELSE /\ j <= Len(txt)
         /\ txt[j] \in re[i].chars
         /\ \/ MatchFrom(re, i + 1, txt, j + 1)
            \/ re[i].plus /\ MatchFrom(re, i, txt, j + 1)

\* re.compile(pattern).match(text) is not None
Matches(re, txt) == MatchFrom(re, 1, txt, 1)

\* main.py:40  COMMAND_PREFIX = os.getenv('COMMAND_PREFIX', '.')
COMMAND_PREFIX == <<".">>

\* main.py:159-164: a letter becomes the class of its two cases, any other
\* character is escaped and matches itself
make_prefix_case_insensitive(prefix) ==
    [i \in 1..Len(prefix) |->
        IF IsAlpha(prefix[i])
        THEN Once({ToUpper(prefix[i]), ToLower(prefix[i])})
        ELSE Once({prefix[i]})]

(***************************************************************************)
(* Handler patterns.  The built-in ones are the literals of               *)
(* main.py:178 and main.py:199.                                            *)
(***************************************************************************)
CheckPattern == "^/check\\s+(\\S+)$"

CleanPattern == "^/clean$"

BuiltinPatterns == {"^/check\\s+(\\S+)$", "^/clean$"}

\* the order in which register_transaction_commands binds them
BuiltinOrder == <<CheckPattern, CleanPattern>>

\* the modules of commands/, by name; FileRank is the lexicographic order of
\* the names, which list.sort() uses
CommandFiles == <<"alpha", "beta", "gamma">>

FileRank == [alpha |-> 1, beta |-> 2, gamma |-> 3]

\* what os.listdir yields, filtered as main.py:229-232 does: the files in the
\* order the file system gives them
Listings == {<<>>, <<"gamma">>, <<"gamma", "alpha", "beta">>,
             <<"beta", "gamma", "alpha">>}

\* what each module does when it is imported and asked to register
ModuleKind == [alpha |-> "no_register", beta |-> "raises", gamma |-> "registers"]

ModulePattern(m) == "module:" \o m

ModulePatterns == {ModulePattern(CommandFiles[i]) : i \in 1..Len(CommandFiles)}

Patterns == BuiltinPatterns \cup ModulePatterns

\* the keyword a module binds under the prefix it is given
ModuleKeyword(m) ==
    CASE m = "alpha" -> <<"a", "l", "p", "h", "a">>
      [] m = "beta" -> <<"b", "e", "t", "a">>
      [] OTHER -> <<"g", "a", "m", "m", "a">>

\* the compiled pattern of a binding
Regex(p) ==
    CASE p = CheckPattern ->
             Literal(<<"/", "c", "h", "e", "c", "k">>)
                 \o <<OneOrMore(Whitespace), OneOrMore(Alphabet \ Whitespace)>>
      [] p = CleanPattern -> Literal(<<"/", "c", "l", "e", "a", "n">>)
      [] OTHER ->
             LET m == CHOOSE f \in DOMAIN FileRank : ModulePattern(f) = p
             IN make_prefix_case_insensitive(COMMAND_PREFIX) \o Literal(ModuleKeyword(m))

\* logger records that name why the loop ends
ReasonLogs == {"max_retries_reached", "auth_error", "2fa_required", "stopped_by_user"}

\* pc values after the while loop of main() has been left
LoopEnded == {"cleanup", "done", "aborted", "exited"}

(***************************************************************************)
(* client.on(events.NewMessage(pattern=p)): appends one binding.           *)
(***************************************************************************)
ClientOn(h, p) == [h EXCEPT ![p] = @ + 1]

RECURSIVE ClientOnAll(_, _)
ClientOnAll(h, ps) ==
    IF ps = {} THEN h
    ELSE LET p == CHOOSE x \in ps : TRUE
         IN ClientOnAll(ClientOn(h, p), ps \ {p})

\* main.py:170-209
register_transaction_commands(h) == ClientOnAll(h, BuiltinPatterns)

\* module.register(client, prefix) of a module that has one: binds its handler
ModuleRegister(h, m) == ClientOn(h, ModulePattern(m))

RECURSIVE InsertSorted(_, _)
InsertSorted(f, sorted) ==
    IF sorted = <<>> THEN <<f>>
    ELSE IF FileRank[f] <= FileRank[Head(sorted)]
         THEN <<f>> \o sorted
         ELSE <<Head(sorted)>> \o InsertSorted(f, Tail(sorted))

RECURSIVE SortRec(_)
SortRec(files) ==
    IF files = <<>> THEN <<>> ELSE InsertSorted(Head(files), SortRec(Tail(files)))

\* main.py:238  command_files.sort()
SortFiles(files) == SortRec(files)

\* the locals of load_all_commands, with the client's bindings
NoLoad == [listed |-> <<>>, attempted |-> <<>>, loaded_count |-> 0,
           failed_count |-> 0, returned |-> FALSE]

\* a loop that gives up at the first module that fails
RECURSIVE LoadUntilFailure(_, _, _)
LoadUntilFailure(st, files, i) ==
    IF i > Len(files) THEN st
    ELSE LET m == files[i]
         IN IF ModuleKind[m] = "registers"
            THEN LoadUntilFailure(
                     [st EXCEPT !.handlers = ModuleRegister(@, m),
                                !.builders = Append(@, ModulePattern(m)),
                                !.attempted = Append(@, m),
                                !.loaded_count = @ + 1], files, i + 1)
            ELSE [st EXCEPT !.attempted = Append(@, m), !.failed_count = @ + 1]

\* main.py:248-268: each file in turn; a module with register() is registered
\* and counted as loaded (257-260), one without is counted as failed (261-263),
\* one whose import or register() raises is counted as failed (265-268)
RECURSIVE LoadFrom(_, _, _)
LoadFrom(st, files, i) ==
    IF i > Len(files) THEN st
    ELSE LET m == files[i]
         IN LoadFrom(
                IF ModuleKind[m] = "registers"
                THEN [st EXCEPT !.handlers = ModuleRegister(@, m),
                                !.builders = Append(@, ModulePattern(m)),
                                !.attempted = Append(@, m),
                                !.loaded_count = @ + 1]
                ELSE [st EXCEPT !.attempted = Append(@, m), !.failed_count = @ + 1],
                files, i + 1)

\* main.py:215-274, given what the directory lists (nothing when it is missing
\* or holds no command file: lines 218-236)
load_all_commands(h, b, listed) ==
    LoadFrom([handlers |-> h, builders |-> b, listed |-> listed, attempted |-> <<>>,
              loaded_count |-> 0, failed_count |-> 0],
             SortFiles(listed), 1)

(***************************************************************************)
(* Routing of an inbound message: the client goes through its bindings in  *)
(* the order they were added and runs the callback of each one whose       *)
(* pattern matches the text (no callback of main.py raises StopPropagation)*)
(***************************************************************************)
\* text sent to the account while it is online
Messages ==
    {<<"/", "c", "h", "e", "c", "k", " ", "X">>,
     <<"/", "C", "H", "E", "C", "K", " ", "X">>,
     <<"/", "c", "l", "e", "a", "n">>,
     <<".", "c", "h", "e", "c", "k", " ", "X">>,
     <<".", "C", "H", "E", "C", "K", " ", "X">>,
     <<".", "C", "h", "E", "c", "K", " ", "X">>,
     <<"!", "c", "h", "e", "c", "k", " ", "X">>,
     <<".", "g", "a", "m", "m", "a">>,
     <<"h", "e", "l", "p">>}

NoDispatch == [msg |-> <<>>, ran |-> <<>>]

RECURSIVE RunMatching(_, _, _)
RunMatching(builders, i, txt) ==
    IF i > Len(builders) THEN <<>>
    ELSE (IF Matches(Regex(builders[i]), txt) THEN <<builders[i]>> ELSE <<>>)
             \o RunMatching(builders, i + 1, txt)

(***************************************************************************)
(* Initial state: main.py:90-97 (the client exists, not connected, no      *)
(* handlers) and main.py:281-282.                                          *)
(***************************************************************************)
SessionInit ==
    /\ pc = "loop_head"
    /\ retry_count = 0
    /\ wait_time = 0
    /\ exc = NoExc
    /\ connected = FALSE
    /\ handlers = [p \in Patterns |-> 0]
    /\ lastLog = "none"
    /\ slept = 0
    /\ connects = 0
    /\ apiThreads = 0
    /\ event_builders = <<>>
    /\ loadResult = NoLoad
    /\ dispatched = NoDispatch
    /\ failures = 0

(***************************************************************************)
(* main(), main.py:280-382.                                                *)
(***************************************************************************)
\* main.py:347 and 368  if retry_count < max_retries: wait and go round again
RetryAllowedOffByOne(n) == n <= max_retries

RetryAllowed(n) == n < max_retries

\* an exception leaves the try body: the connection may or may not survive it
Raise(e) ==
    /\ pc' = "except"
    /\ exc' = e
    /\ connected' \in (IF pc = "start" THEN BOOLEAN ELSE {connected, FALSE})

\* main.py:284  while retry_count < max_retries, and line 296
LoopHead ==
    /\ pc = "loop_head"
    /\ IF retry_count < max_retries
       THEN /\ connects < MaxConnects
            /\ pc' = "start"
            /\ lastLog' = "connecting"
       ELSE /\ pc' = "cleanup"
            /\ UNCHANGED lastLog
    /\ exc' = NoExc
    /\ slept' = 0
    /\ UNCHANGED <<retry_count, wait_time, connected, handlers, event_builders, connects, apiThreads>>
    /\ UNCHANGED <<loadResult, dispatched, failures>>
    /\ UNCHANGED storeVars

\* main.py:297  await client.start()
ClientStartOk ==
    /\ pc = "start"
    /\ pc' = "get_me"
    /\ connected' = TRUE
    /\ connects' = connects + 1
    /\ failures' = 0
    /\ UNCHANGED <<retry_count, wait_time, exc, handlers, event_builders, lastLog, slept, apiThreads>>
    /\ UNCHANGED <<loadResult, dispatched>>
    /\ UNCHANGED storeVars

ClientStartFails ==
    /\ pc = "start"
    /\ \E e \in Raisable : Raise(e)
    /\ UNCHANGED <<retry_count, wait_time, handlers, event_builders, lastLog, slept, connects, apiThreads>>
    /\ UNCHANGED <<loadResult, dispatched, failures>>
    /\ UNCHANGED storeVars

\* main.py:299  me = await client.get_me()
GetMe ==
    /\ pc = "get_me"
    /\ \/ /\ pc' = "register"
          /\ UNCHANGED <<exc, connected>>
       \/ \E e \in Raisable : Raise(e)
    /\ UNCHANGED <<retry_count, wait_time, handlers, event_builders, lastLog, slept, connects, apiThreads>>
    /\ UNCHANGED <<loadResult, dispatched, failures>>
    /\ UNCHANGED storeVars

\* main.py:312  register_transaction_commands()
RegisterBuiltins ==
    /\ pc = "register"
    /\ handlers' = register_transaction_commands(handlers)
    /\ event_builders' = event_builders \o BuiltinOrder
    /\ lastLog' = "builtin_registered"
    /\ pc' = "load"
    /\ UNCHANGED <<retry_count, wait_time, exc, connected, slept, connects, apiThreads>>
    /\ UNCHANGED <<loadResult, dispatched, failures>>
    /\ UNCHANGED storeVars

\* main.py:315-318  loaded_commands = load_all_commands().  os.listdir (or, for a
\* missing directory, os.makedirs and open) is called outside the try of the
\* loop over the files: what it raises leaves load_all_commands and the try
\* body of main()
LoadCommands ==
    /\ pc = "load"
    /\ \/ \E listed \in Listings :
             LET r == load_all_commands(handlers, event_builders, listed)
             IN /\ handlers' = r.handlers
                /\ event_builders' = r.builders
                /\ loadResult' = [listed |-> r.listed, attempted |-> r.attempted,
                                  loaded_count |-> r.loaded_count,
                                  failed_count |-> r.failed_count, returned |-> TRUE]
                /\ lastLog' = IF r.loaded_count = 0 THEN "no_external_commands"
                              ELSE lastLog
                /\ pc' = "api"
                /\ UNCHANGED <<exc, connected>>
       \/ /\ Raise(OSError)
          /\ UNCHANGED <<handlers, event_builders, loadResult, lastLog>>
    /\ UNCHANGED <<retry_count, wait_time, slept, connects, apiThreads>>
    /\ UNCHANGED <<dispatched, failures>>
    /\ UNCHANGED storeVars

\* main.py:321-338  the API thread is started, the banner logged, retry_count reset
StartApiAndGoOnline ==
    /\ pc = "api"
    /\ apiThreads' = apiThreads + 1
    /\ lastLog' = "press_ctrl_c"
    /\ retry_count' = 0
    /\ pc' = "running"
    /\ loadResult' = NoLoad
    /\ UNCHANGED <<wait_time, exc, connected, handlers, event_builders, slept, connects>>
    /\ UNCHANGED <<dispatched, failures>>
    /\ UNCHANGED storeVars

\* main.py:339, while client.run_until_disconnected() is awaited: a message
\* arrives and the client runs the callbacks bound by main.py:178, 199 and 258
Dispatch ==
    /\ pc = "running"
    /\ connected
    /\ \E txt \in Messages :
          dispatched' = [msg |-> txt, ran |-> RunMatching(event_builders, 1, txt)]
    /\ UNCHANGED <<pc, retry_count, wait_time, exc, connected, handlers, event_builders,
                   lastLog, slept, connects, apiThreads, loadResult, failures>>
    /\ UNCHANGED storeVars

\* a loop that connects again when the connection has ended without an error
RunReturnsReconnects ==
    /\ pc = "running"
    /\ connected' = FALSE
    /\ pc' = "loop_head"
    /\ dispatched' = NoDispatch
    /\ UNCHANGED <<retry_count, wait_time, exc, handlers, event_builders, lastLog, slept, connects, apiThreads>>
    /\ UNCHANGED <<loadResult, failures>>
    /\ UNCHANGED storeVars

\* main.py:339-340  await client.run_until_disconnected(); break
RunReturns ==
    /\ pc = "running"
    /\ connected' = FALSE
    /\ pc' = "cleanup"
    /\ dispatched' = NoDispatch
    /\ UNCHANGED <<retry_count, wait_time, exc, handlers, event_builders, lastLog, slept, connects, apiThreads>>
    /\ UNCHANGED <<loadResult, failures>>
    /\ UNCHANGED storeVars

RunRaises ==
    /\ pc = "running"
    /\ \E e \in Raisable : Raise(e)
    /\ dispatched' = NoDispatch
    /\ UNCHANGED <<retry_count, wait_time, handlers, event_builders, lastLog, slept, connects, apiThreads>>
    /\ UNCHANGED <<loadResult, failures>>
    /\ UNCHANGED storeVars

\* main.py:342-351
ExceptFloodWait ==
    /\ pc = "except"
    /\ exc.cls = "FloodWaitError"
    /\ retry_count' = retry_count + 1
    /\ wait_time' = exc.seconds
    /\ IF RetryAllowed(retry_count')
       THEN /\ lastLog' = "retry_n_of_max"
            /\ pc' = "flood_sleep"
       ELSE /\ lastLog' = "max_retries_reached"
            /\ pc' = "cleanup"
    /\ failures' = failures + 1
    /\ UNCHANGED <<exc, connected, handlers, event_builders, slept, connects, apiThreads>>
    /\ UNCHANGED <<loadResult, dispatched>>
    /\ UNCHANGED storeVars

\* an authentication failure handled like an unexpected error
ExceptAuthKeyRetries ==
    /\ pc = "except"
    /\ exc.cls = "AuthKeyError"
    /\ retry_count' = retry_count + 1
    /\ lastLog' = "auth_error"
    /\ pc' = IF retry_count' < max_retries THEN "backoff_sleep" ELSE "cleanup"
    /\ UNCHANGED <<wait_time, exc, connected, handlers, event_builders, slept, connects, apiThreads>>
    /\ UNCHANGED <<loadResult, dispatched, failures>>
    /\ UNCHANGED storeVars

\* main.py:353-355
ExceptAuthKey ==
    /\ pc = "except"
    /\ exc.cls = "AuthKeyError"
    /\ lastLog' = "auth_error"
    /\ pc' = "cleanup"
    /\ UNCHANGED <<retry_count, wait_time, exc, connected, handlers, event_builders, slept, connects, apiThreads>>
    /\ UNCHANGED <<loadResult, dispatched, failures>>
    /\ UNCHANGED storeVars

\* main.py:357-359
ExceptSessionPassword ==
    /\ pc = "except"
    /\ exc.cls = "SessionPasswordNeededError"
    /\ lastLog' = "2fa_required"
    /\ pc' = "cleanup"
    /\ UNCHANGED <<retry_count, wait_time, exc, connected, handlers, event_builders, slept, connects, apiThreads>>
    /\ UNCHANGED <<loadResult, dispatched, failures>>
    /\ UNCHANGED storeVars

\* a shutdown signal after which the loop goes round again
ExceptKeyboardInterruptRetries ==
    /\ pc = "except"
    /\ exc.cls = "KeyboardInterrupt"
    /\ lastLog' = "stopped_by_user"
    /\ pc' = "loop_head"
    /\ UNCHANGED <<retry_count, wait_time, exc, connected, handlers, event_builders, slept, connects, apiThreads>>
    /\ UNCHANGED <<loadResult, dispatched, failures>>
    /\ UNCHANGED storeVars

\* main.py:361-363
ExceptKeyboardInterrupt ==
    /\ pc = "except"
    /\ exc.cls = "KeyboardInterrupt"
    /\ lastLog' = "stopped_by_user"
    /\ pc' = "cleanup"
    /\ UNCHANGED <<retry_count, wait_time, exc, connected, handlers, event_builders, slept, connects, apiThreads>>
    /\ UNCHANGED <<loadResult, dispatched, failures>>
    /\ UNCHANGED storeVars

\* main.py:365-373
ExceptException ==
    /\ pc = "except"
    /\ exc.cls \in CaughtByException
    /\ retry_count' = retry_count + 1
    /\ IF RetryAllowed(retry_count')
       THEN /\ lastLog' = "waiting_5_seconds"
            /\ pc' = "backoff_sleep"
       ELSE /\ lastLog' = "max_retries_reached"
            /\ pc' = "cleanup"
    /\ failures' = failures + 1
    /\ UNCHANGED <<wait_time, exc, connected, handlers, event_builders, slept, connects, apiThreads>>
    /\ UNCHANGED <<loadResult, dispatched>>
    /\ UNCHANGED storeVars

\* no except clause of main.py:342-365 names a BaseException: it leaves main()
ExceptNoMatch ==
    /\ pc = "except"
    /\ exc.cls = "CancelledError"
    /\ pc' = "aborted"
    /\ UNCHANGED <<retry_count, wait_time, exc, connected, handlers, event_builders, lastLog, slept, connects, apiThreads>>
    /\ UNCHANGED <<loadResult, dispatched, failures>>
    /\ UNCHANGED storeVars

\* the fixed backoff used for the provider's cool-down too
FloodSleepFixed == BackoffSeconds

\* main.py:348  await asyncio.sleep(wait_time)
FloodSleepSeconds == wait_time

FloodSleep ==
    /\ pc = "flood_sleep"
    /\ slept' = FloodSleepSeconds
    /\ pc' = "loop_head"
    /\ UNCHANGED <<retry_count, wait_time, exc, connected, handlers, event_builders, lastLog, connects, apiThreads>>
    /\ UNCHANGED <<loadResult, dispatched, failures>>
    /\ UNCHANGED storeVars

\* main.py:370  await asyncio.sleep(5)
BackoffSleep ==
    /\ pc = "backoff_sleep"
    /\ slept' = BackoffSeconds
    /\ pc' = "loop_head"
    /\ UNCHANGED <<retry_count, wait_time, exc, connected, handlers, event_builders, lastLog, connects, apiThreads>>
    /\ UNCHANGED <<loadResult, dispatched, failures>>
    /\ UNCHANGED storeVars

\* a shutdown signal during a sleep of an except clause: raised inside the
\* handler, it is not caught by the sibling clauses and leaves main()
SleepInterrupted ==
    /\ pc \in {"flood_sleep", "backoff_sleep"}
    /\ \E e \in ShutdownSignals : exc' = e
    /\ pc' = "aborted"
    /\ UNCHANGED <<retry_count, wait_time, connected, handlers, event_builders, lastLog, slept, connects, apiThreads>>
    /\ UNCHANGED <<loadResult, dispatched, failures>>
    /\ UNCHANGED storeVars

\* main.py:375-378
Cleanup ==
    /\ pc = "cleanup"
    /\ connected' = FALSE
    /\ lastLog' = "client_disconnected"
    /\ pc' = "done"
    /\ UNCHANGED <<retry_count, wait_time, exc, handlers, event_builders, slept, connects, apiThreads>>
    /\ UNCHANGED <<loadResult, dispatched, failures>>
    /\ UNCHANGED storeVars

\* main.py:388-397  asyncio.run(main()) returns or raises; finally: Goodbye
EntryPoint ==
    /\ pc \in {"done", "aborted"}
    /\ pc' = "exited"
    /\ UNCHANGED <<retry_count, wait_time, exc, connected, handlers, event_builders, lastLog, slept, connects, apiThreads>>
    /\ UNCHANGED <<loadResult, dispatched, failures>>
    /\ UNCHANGED storeVars

SessionNext ==
    \/ LoopHead
    \/ ClientStartOk
    \/ ClientStartFails
    \/ GetMe
    \/ RegisterBuiltins
    \/ LoadCommands
    \/ StartApiAndGoOnline
    \/ Dispatch
    \/ RunReturns
    \/ RunRaises
    \/ ExceptFloodWait
    \/ ExceptAuthKey
    \/ ExceptSessionPassword
    \/ ExceptKeyboardInterrupt
    \/ ExceptException
    \/ ExceptNoMatch
    \/ FloodSleep
    \/ BackoffSleep
    \/ SleepInterrupted
    \/ Cleanup
    \/ EntryPoint

(***************************************************************************)
(* firestoredb.py: the transaction store.  Thread 0 is the event loop      *)
(* thread (it imports the module and runs the cmd_check and cmd_clean      *)
(* handlers); the others are the ingest threads running receive_sms.       *)
(***************************************************************************)
LoopThread == 0

\* the threads that run receive_sms
Workers == {1, 2}

Threads == {LoopThread} \cup Workers

NoThread == -1

\* what receive_sms is sent: (trxid, amount, gateway)
Payloads == {<<"DBR3IBG8W3", 1785, "bKash">>, <<"DBR3IBG8W3", 20, "Nagad">>,
             <<"AKX71PQ2ZZ", 20, "bKash">>}

TrxIds == {p[1] : p \in Payloads}

\* a row of the transactions table (firestoredb.py:119-124); NoRow stands for None
NoRow == [trxid |-> "", amount |-> 0, gateway |-> "", created_at |-> -1]

NoOp == [name |-> "none", trxid |-> "", amount |-> 0, gateway |-> "",
         created_at |-> -1, callTime |-> -1, auth |-> ""]

\* main.py:41  MAIN_AUTH, and what a caller may send as its Authorization header
\* ("" when it sends none: main.py:126)
MAIN_AUTH == "s3cret"

AuthHeaders == {MAIN_AUTH, ""}

\* an endpoint that lets every caller in
AuthorizedAlways(header) == TRUE

\* main.py:127  the header equals MAIN_AUTH
Authorized(header) == header = MAIN_AUTH

\* what receive_sms answers: main.py:129, 140, 144-148
NoResponse == [status |-> 0, detail |-> "", trxid |-> ""]

Unauthorized == [status |-> 401, detail |-> "Unauthorized", trxid |-> ""]

SmsResponse(success, trxid) ==
    IF success
    THEN [status |-> 200, detail |-> "Transaction saved", trxid |-> trxid]
    ELSE [status |-> 500, detail |-> "Failed to save transaction", trxid |-> ""]

\* a connection object: the thread whose get_connection opened it, and which of
\* that thread's it is; NoConn stands for the attribute being unset
NoConn == [by |-> -1, n |-> 0]

\* storage shared by every thread of the process
ProcessGlobal(t) == 0

\* firestoredb.py:28  threading.local(): each thread reads and writes its own slot
ThreadLocal(t) == t

\* pre: the committed rows when the call's last statement ran
NoRet == [thread |-> -1, op |-> "none", trxid |-> "", ok |-> FALSE, row |-> NoRow,
          error |-> "none", pre |-> {}, auth |-> "", response |-> NoResponse]

NoPending == [kind |-> "none", row |-> NoRow]

\* a timestamp read from a clock value cached one tick earlier
StaleTimestamp == IF clock > 0 THEN clock - 1 ELSE clock

\* firestoredb.py:144-146  datetime.utcnow().isoformat() + 'Z', as the clock reading
GetCurrentTimestamp == clock

\* firestoredb.py:172  float(amount): value-preserving on the float the caller passes
PyFloat(a) == a

KeyPresent(rs, x) == \E r \in rs : r.trxid = x

\* a table whose trxid column is no key
NoPrimaryKey(rs, r) == FALSE

\* firestoredb.py:120  trxid TEXT PRIMARY KEY: an INSERT of a present key is refused

PrimaryKeyViolated(rs, r) == KeyPresent(rs, r.trxid)

\* firestoredb.py:197-198 and 75-76  SELECT * ... WHERE trxid = ?; fetchone()
SelectOne(rs, x) ==
    IF KeyPresent(rs, x) THEN CHOOSE r \in rs : r.trxid = x ELSE NoRow

\* a DELETE that removes one row only
DeleteOneRow(rs) == IF rs = {} THEN {} ELSE rs \ {CHOOSE r \in rs : TRUE}

\* main.py:202  DELETE FROM transactions
DeleteAll(rs) == {}

\* firestoredb.py:81  conn.commit(): the writer's change becomes the table
Committed(rs, p) ==
    CASE p.kind = "insert" -> rs \cup {p.row}
      [] p.kind = "delete_all" -> DeleteAll(rs)
      [] OTHER -> rs

NoInit == [thread |-> -1, value |-> "none"]

\* firestoredb.py:28-30; line 241 (init_database() on import) is about to run
StoreInit ==
    /\ imported = FALSE
    /\ db_initialized = FALSE
    /\ init_lock = NoThread
    /\ schema = FALSE
    /\ rows = {}
    /\ writer = NoThread
    /\ pending = NoPending
    /\ conn = [t \in Threads |-> NoConn]
    /\ tpc = [t \in Threads |-> IF t = LoopThread THEN "init_check" ELSE "idle"]
    /\ op = [t \in Threads |-> IF t = LoopThread
                                THEN [NoOp EXCEPT !.name = "import"] ELSE NoOp]
    /\ last = NoRet
    /\ lastInit = NoInit
    /\ clock = 0
    /\ initRuns = 0
    /\ initOk = 0
    /\ faults = 0
    /\ created = [t \in Threads |-> 0]
    /\ using = [t \in Threads |-> NoConn]

initVars == <<db_initialized, init_lock, schema, initRuns, initOk>>

dbVars == <<rows, writer, pending>>

\* the call of thread t ends: its result is recorded and the thread is idle again
Return(t, ok, row, error) ==
    /\ last' = [thread |-> t, op |-> op[t].name, trxid |-> op[t].trxid, ok |-> ok,
                row |-> row, error |-> error, pre |-> rows, auth |-> op[t].auth,
                response |-> IF op[t].name = "save"
                             THEN SmsResponse(ok, op[t].trxid) ELSE NoResponse]
    /\ op' = [op EXCEPT ![t] = NoOp]
    /\ tpc' = [tpc EXCEPT ![t] = "idle"]
    /\ using' = [using EXCEPT ![t] = NoConn]

\* firestoredb.py:83-86 then 175-177 / 199-201 / main.py:205-207: rollback, and
\* the caller turns the exception into False / None / a failure reply
RaiseInQuery(t, error) ==
    /\ IF writer = t
       THEN writer' = NoThread /\ pending' = NoPending
       ELSE UNCHANGED <<writer, pending>>
    /\ Return(t, FALSE, NoRow, error)

\* init_database() returns v to line 241 (import) or to get_connection (line 39),
\* which goes on to sqlite3.connect whatever v is
InitReturns(t, v) ==
    /\ lastInit' = [thread |-> t, value |-> v]
    /\ IF op[t].name = "import"
       THEN /\ imported' = TRUE
            /\ tpc' = [tpc EXCEPT ![t] = "idle"]
            /\ op' = [op EXCEPT ![t] = NoOp]
       ELSE /\ tpc' = [tpc EXCEPT ![t] = "connect"]
            /\ UNCHANGED <<imported, op>>

\* main.py:126-136  receive_sms: a call whose header is not MAIN_AUTH is answered
\* 401; any other call goes on to save_transaction(trxid, amount, gateway)
CallSave(t) ==
    /\ t \in Workers
    /\ imported
    /\ tpc[t] = "idle"
    /\ \E p \in Payloads, header \in AuthHeaders :
          IF Authorized(header)
          THEN /\ op' = [op EXCEPT ![t] = [name |-> "save", trxid |-> p[1],
                                           amount |-> p[2], gateway |-> p[3],
                                           created_at |-> -1, callTime |-> clock,
                                           auth |-> header]]
               /\ tpc' = [tpc EXCEPT ![t] = "arguments"]
               /\ last' = NoRet
          ELSE /\ last' = [NoRet EXCEPT !.thread = t, !.op = "rejected",
                                        !.error = "HTTPException", !.pre = rows,
                                        !.auth = header, !.response = Unauthorized]
               /\ UNCHANGED <<op, tpc>>
    /\ lastInit' = NoInit
    /\ UNCHANGED <<imported, initVars, dbVars, conn, created, clock, faults, using>>
    /\ UNCHANGED sessionVars

\* firestoredb.py:98-99  the unlocked test of the flag
FastPath == db_initialized

\* firestoredb.py:38-39 and 98-99, entered from execute_query (line 68): a thread
\* with a connection reuses it; one without calls init_database(), which returns
\* at once when the flag is set
GetConnection(t) ==
    IF conn[ThreadLocal(t)] # NoConn
    THEN /\ tpc' = [tpc EXCEPT ![t] = "execute"]
         /\ using' = [using EXCEPT ![t] = conn[ThreadLocal(t)]]
         /\ lastInit' = NoInit
    ELSE /\ UNCHANGED using
         /\ IF FastPath
            THEN /\ tpc' = [tpc EXCEPT ![t] = "connect"]
                 /\ lastInit' = [thread |-> t, value |-> "True"]
            ELSE /\ tpc' = [tpc EXCEPT ![t] = "init_wait"]
                 /\ lastInit' = NoInit

\* firestoredb.py:172  the parameter tuple: float(amount), _get_current_timestamp();
\* then execute_query and its get_connection()
SaveArguments(t) ==
    /\ tpc[t] = "arguments"
    /\ op' = [op EXCEPT ![t].amount = PyFloat(@), ![t].created_at = GetCurrentTimestamp,
                         ![t].callTime = -1]
    /\ GetConnection(t)
    /\ last' = NoRet
    /\ UNCHANGED <<imported, initVars, dbVars, conn, created, clock, faults>>
    /\ UNCHANGED sessionVars

\* main.py:179-181  cmd_check calls get_transaction(trxid)
CallCheck(t) ==
    /\ t = LoopThread
    /\ imported
    /\ tpc[t] = "idle"
    /\ \E x \in TrxIds :
          op' = [op EXCEPT ![t] = [NoOp EXCEPT !.name = "check", !.trxid = x]]
    /\ GetConnection(t)
    /\ last' = NoRet
    /\ UNCHANGED <<imported, initVars, dbVars, conn, created, clock, faults>>
    /\ UNCHANGED sessionVars

\* main.py:200-202  cmd_clean calls execute_query('DELETE FROM transactions')
CallClean(t) ==
    /\ t = LoopThread
    /\ imported
    /\ tpc[t] = "idle"
    /\ op' = [op EXCEPT ![t] = [NoOp EXCEPT !.name = "clean"]]
    /\ GetConnection(t)
    /\ last' = NoRet
    /\ UNCHANGED <<imported, initVars, dbVars, conn, created, clock, faults>>
    /\ UNCHANGED sessionVars

\* firestoredb.py:241 and 98-99  init_database() on import
ImportInit(t) ==
    /\ tpc[t] = "init_check"
    /\ IF FastPath
       THEN InitReturns(t, "True")
       ELSE /\ tpc' = [tpc EXCEPT ![t] = "init_wait"]
            /\ lastInit' = NoInit
            /\ UNCHANGED <<imported, op>>
    /\ last' = NoRet
    /\ UNCHANGED <<initVars, dbVars, conn, created, clock, faults>>
    /\ UNCHANGED using
    /\ UNCHANGED sessionVars

\* init_database without its lock
LockNeverHeld == TRUE

\* firestoredb.py:101  with _init_lock: a thread enters when no thread holds it
LockFree == init_lock = NoThread

\* init_database without the second test of the flag
DoubleCheckSkipped == FALSE

\* firestoredb.py:102-103  the test of the flag under the lock
DoubleCheck == db_initialized

InitAcquire(t) ==
    /\ tpc[t] = "init_wait"
    /\ LockFree
    /\ IF DoubleCheck
       THEN /\ InitReturns(t, "True")
            /\ UNCHANGED <<init_lock, initRuns>>
       ELSE /\ init_lock' = t
            /\ initRuns' = initRuns + 1
            /\ tpc' = [tpc EXCEPT ![t] = "init_block"]
            /\ lastInit' = NoInit
            /\ UNCHANGED <<imported, op>>
    /\ last' = NoRet
    /\ UNCHANGED <<db_initialized, schema, initOk, dbVars, conn, created, clock, faults>>
    /\ UNCHANGED using
    /\ UNCHANGED sessionVars

\* runs of the schema-creation block that raised
InitFailures == initRuns - initOk - Cardinality({t \in Threads : tpc[t] = "init_block"})

\* firestoredb.py:105-130  the schema-creation block; 136-138 when it raises
InitBlock(t) ==
    /\ tpc[t] = "init_block"
    /\ \/ /\ schema' = TRUE
          /\ initOk' = initOk + 1
          /\ tpc' = [tpc EXCEPT ![t] = "init_flag"]
          /\ lastInit' = NoInit
          /\ UNCHANGED <<imported, op, init_lock, faults>>
       \/ /\ InitFailures < MaxInitFaults
          /\ faults' = faults + 1
          /\ init_lock' = IF init_lock = t THEN NoThread ELSE init_lock
          /\ InitReturns(t, "False")
          /\ UNCHANGED <<schema, initOk>>
    /\ last' = NoRet
    /\ UNCHANGED <<db_initialized, initRuns, dbVars, conn, created, clock>>
    /\ UNCHANGED using
    /\ UNCHANGED sessionVars

\* firestoredb.py:132-134  the flag is set, the lock released, True returned
InitSetFlag(t) ==
    /\ tpc[t] = "init_flag"
    /\ db_initialized' = TRUE
    /\ init_lock' = IF init_lock = t THEN NoThread ELSE init_lock
    /\ InitReturns(t, "True")
    /\ last' = NoRet
    /\ UNCHANGED <<schema, initRuns, initOk, dbVars, conn, created, clock, faults>>
    /\ UNCHANGED using
    /\ UNCHANGED sessionVars

\* firestoredb.py:41-49  sqlite3.connect, the PRAGMAs, and the connection is
\* stored in the thread's slot.  sqlite3.connect may raise, and so may a PRAGMA
\* on the connection just opened, which is then dropped; either exception
\* leaves execute_query at line 68, before its try
Connect(t) ==
    /\ tpc[t] = "connect"
    /\ \/ LET c == [by |-> t, n |-> created[t] + 1]
          IN /\ created' = [created EXCEPT ![t] = @ + 1]
             /\ conn' = [conn EXCEPT ![ThreadLocal(t)] = c]
             /\ using' = [using EXCEPT ![t] = c]
             /\ tpc' = [tpc EXCEPT ![t] = "execute"]
             /\ last' = NoRet
             /\ UNCHANGED <<op, faults>>
       \/ /\ faults < MaxFaults
          /\ faults' = faults + 1
          /\ \E opened \in BOOLEAN :
                created' = IF opened THEN [created EXCEPT ![t] = @ + 1] ELSE created
          /\ Return(t, FALSE, NoRow, "OperationalError")
          /\ UNCHANGED conn
    /\ lastInit' = NoInit
    /\ UNCHANGED <<imported, initVars, dbVars, clock>>
    /\ UNCHANGED sessionVars

\* the row an INSERT carries
RowOf(o) == [trxid |-> o.trxid, amount |-> o.amount, gateway |-> o.gateway,
             created_at |-> o.created_at]

\* SQLite admits one writing transaction at a time
WriteLockFree == writer = NoThread

\* firestoredb.py:72  cursor.execute of the INSERT (lines 168-172)
ExecuteInsert(t) ==
    /\ tpc[t] = "execute"
    /\ op[t].name = "save"
    /\ IF ~schema
       THEN RaiseInQuery(t, "OperationalError")
       ELSE /\ WriteLockFree
            /\ IF PrimaryKeyViolated(rows, RowOf(op[t]))
               THEN RaiseInQuery(t, "IntegrityError")
               ELSE /\ writer' = t
                    /\ pending' = [kind |-> "insert", row |-> RowOf(op[t])]
                    /\ tpc' = [tpc EXCEPT ![t] = "commit"]
                    /\ last' = NoRet
                    /\ UNCHANGED <<op, using>>
    /\ lastInit' = NoInit
    /\ UNCHANGED <<imported, initVars, rows, conn, created, clock, faults>>
    /\ UNCHANGED sessionVars

\* firestoredb.py:72-76  cursor.execute of the SELECT and fetchone()
ExecuteSelect(t) ==
    /\ tpc[t] = "execute"
    /\ op[t].name = "check"
    /\ IF ~schema
       THEN RaiseInQuery(t, "OperationalError")
       ELSE /\ Return(t, SelectOne(rows, op[t].trxid) # NoRow,
                      SelectOne(rows, op[t].trxid), "none")
            /\ UNCHANGED <<writer, pending>>
    /\ lastInit' = NoInit
    /\ UNCHANGED <<imported, initVars, rows, conn, created, clock, faults>>
    /\ UNCHANGED sessionVars

\* firestoredb.py:72  cursor.execute of DELETE FROM transactions
ExecuteDelete(t) ==
    /\ tpc[t] = "execute"
    /\ op[t].name = "clean"
    /\ IF ~schema
       THEN RaiseInQuery(t, "OperationalError")
       ELSE /\ WriteLockFree
            /\ writer' = t
            /\ pending' = [kind |-> "delete_all", row |-> NoRow]
            /\ tpc' = [tpc EXCEPT ![t] = "commit"]
            /\ last' = NoRet
            /\ UNCHANGED <<op, using>>
    /\ lastInit' = NoInit
    /\ UNCHANGED <<imported, initVars, rows, conn, created, clock, faults>>
    /\ UNCHANGED sessionVars

\* firestoredb.py:81-82  conn.commit()
Commit(t) ==
    /\ tpc[t] = "commit"
    /\ rows' = Committed(rows, pending)
    /\ writer' = NoThread
    /\ pending' = NoPending
    /\ Return(t, TRUE, IF op[t].name = "save" THEN RowOf(op[t]) ELSE NoRow, "none")
    /\ lastInit' = NoInit
    /\ UNCHANGED <<imported, initVars, conn, created, clock, faults>>
    /\ UNCHANGED sessionVars

\* cursor.execute or conn.commit raises (disk, lock timeout): firestoredb.py:83-86
QueryFails(t) ==
    /\ tpc[t] \in {"execute", "commit"}
    /\ faults < MaxFaults
    /\ faults' = faults + 1
    /\ RaiseInQuery(t, "OperationalError")
    /\ lastInit' = NoInit
    /\ UNCHANGED <<imported, initVars, rows, conn, created, clock>>
    /\ UNCHANGED sessionVars

\* time passes
Tick ==
    /\ clock < MaxClock
    /\ clock' = clock + 1
    /\ last' = NoRet
    /\ lastInit' = NoInit
    /\ UNCHANGED <<imported, initVars, dbVars, conn, tpc, op, faults, created, using>>
    /\ UNCHANGED sessionVars

StoreNext ==
    \/ \E t \in Threads :
          \/ CallSave(t)
          \/ SaveArguments(t)
          \/ CallCheck(t)
          \/ CallClean(t)
          \/ ImportInit(t)
          \/ InitAcquire(t)
          \/ InitBlock(t)
          \/ InitSetFlag(t)
          \/ Connect(t)
          \/ ExecuteInsert(t)
          \/ ExecuteSelect(t)
          \/ ExecuteDelete(t)
          \/ Commit(t)
          \/ QueryFails(t)
    \/ Tick

Init == SessionInit /\ StoreInit

Next == SessionNext

Spec == Init /\ [][Next]_vars

\* the event loop keeps running main(): a raised exception reaches its except
\* clause, the code after the loop runs, asyncio.run returns
Progress ==
    \/ ExceptFloodWait
    \/ ExceptAuthKey
    \/ ExceptSessionPassword
    \/ ExceptKeyboardInterrupt
    \/ ExceptException
    \/ ExceptNoMatch
    \/ Cleanup
    \/ EntryPoint

FairSpec == Spec /\ WF_vars(Progress)

NextStore == StoreNext

SpecStore == Init /\ [][NextStore]_vars

(***************************************************************************)
(* The claims.                                                             *)
(***************************************************************************)

\* C1: retry_count never exceeds max_retries; once it has reached max_retries
\* the loop of main() has ended and stays ended: no client.start() follows.
C1_RetryBudget ==
    [][/\ retry_count' <= max_retries
       /\ (retry_count = max_retries =>
              /\ pc \in LoopEnded
              /\ pc' \in LoopEnded
              /\ retry_count' = max_retries)]_vars

C1_Witness == retry_count = max_retries /\ pc = "done"

\* C2: whatever the number of successful connections of one process, the client
\* holds at most one binding per pattern.
C2_OneBindingPerPattern == \A p \in Patterns : handlers[p] <= 1

\* C3 (as stated): the schema-creation block runs once in total and every
\* init_database() call returns True.
C3_OnceAndAllTrue == initRuns <= 1 /\ lastInit.value # "False"

InBlock == {t \in Threads : tpc[t] \in {"init_block", "init_flag"}}

\* C3 (amended): the schema-creation block is never run by two threads at once
\* and runs to its end at most once; a run begun after the first is begun only
\* because every earlier one raised; a thread that found the flag unset does not
\* get past the lock while another thread is in the block; a call returns True
\* only once the schema exists and the flag is set.
C3_InitOnce ==
    /\ Cardinality(InBlock) <= 1
    /\ initOk <= 1
    /\ initRuns <= initOk + faults + Cardinality({t \in InBlock : tpc[t] = "init_block"})
    /\ (db_initialized => initOk = 1 /\ schema)
    /\ (lastInit.value = "True" => db_initialized /\ schema)
    /\ (lastInit.value = "False" => faults > 0 /\ lastInit.thread \notin InBlock)
    /\ \A t \in InBlock : init_lock = t

C3_Witness ==
    \E t1, t2 \in Threads :
        /\ t1 # t2
        /\ tpc[t1] = "init_flag"
        /\ tpc[t2] = "init_wait"
        /\ initRuns = 2

UniqueKeys(rs) == \A r1, r2 \in rs : r1.trxid = r2.trxid => r1 = r2

\* C4: the table holds at most one row per trxid, and a save_transaction whose
\* trxid is present when it runs returns False and leaves the table as it was.
C4_NoDuplicateTrxid ==
    /\ UniqueKeys(rows)
    /\ (last.op = "save" /\ KeyPresent(last.pre, last.trxid) =>
            ~last.ok /\ rows = last.pre)

C4_Witness ==
    /\ last.op = "save"
    /\ last.error = "IntegrityError"
    /\ KeyPresent(rows, last.trxid)
    /\ Cardinality(rows) = 2

\* C5 (as stated): a save_transaction of a trxid that is not in the table returns
\* True, and get_transaction then returns the row that was submitted.
C5_SaveAlwaysSucceeds ==
    (last.op = "save" /\ ~KeyPresent(last.pre, last.trxid)) =>
        (last.ok /\ SelectOne(rows, last.trxid) = last.row)

\* C5 (amended): a save_transaction of a trxid that is not in the table returns
\* True unless a storage call raised, and then it returns False and stores
\* nothing; when it returns True, get_transaction returns the row with the trxid,
\* amount and gateway submitted, whose created_at was taken no earlier than the
\* call was entered.
C5_SaveThenGet ==
    [][/\ \A t \in Workers :
            /\ (tpc[t] = "arguments" /\ tpc'[t] # "arguments") =>
                   /\ op'[t].created_at >= op[t].callTime
                   /\ op'[t].trxid = op[t].trxid
                   /\ op'[t].amount = op[t].amount
                   /\ op'[t].gateway = op[t].gateway
            /\ (tpc[t] \in {"init_wait", "init_block", "init_flag", "connect",
                            "execute", "commit"}) =>
                   \/ op'[t] = op[t]
                   \/ /\ last'.thread = t
                      /\ last'.op = "save"
                      /\ (last'.ok => last'.row = RowOf(op[t]))
       /\ (last'.op = "save" /\ last'.ok) =>
              /\ ~KeyPresent(last'.pre, last'.trxid)
              /\ SelectOne(rows', last'.trxid) = last'.row
       /\ (last'.op = "save" /\ ~last'.ok /\ ~KeyPresent(last'.pre, last'.trxid)) =>
              /\ last'.error = "OperationalError"
              /\ rows' = last'.pre]_vars

C5_Witness ==
    /\ last.op = "save"
    /\ last.ok
    /\ last.row.created_at > 0
    /\ SelectOne(rows, last.trxid) = last.row

\* C6: when cmd_clean has completed successfully, get_transaction returns none
\* for every trxid, those saved before it included.
C6_CleanThenGet ==
    (last.op = "clean" /\ last.ok) =>
        \A x \in TrxIds : SelectOne(rows, x) = NoRow

C6_Witness ==
    /\ last.op = "clean"
    /\ last.ok
    /\ Cardinality(last.pre) = 2

\* C7: an AuthKeyError or SessionPasswordNeededError ends the loop whatever
\* retry_count is: retry_count stays, no sleep is begun, no attempt follows.
C7_AuthFailureTerminates ==
    [][/\ (pc = "except" /\ exc.cls \in AuthFailures) =>
              (pc' = "cleanup" /\ retry_count' = retry_count /\ slept' = slept)
       /\ (pc \in LoopEnded /\ exc.cls \in AuthFailures) =>
              (pc' \in LoopEnded /\ slept' = slept /\ connects' = connects)]_vars

C7_Witness ==
    /\ exc.cls \in AuthFailures
    /\ pc = "done"
    /\ retry_count = 2

\* C8: a FloodWaitError adds one to retry_count, and the next attempt, when there
\* is one, begins only after a sleep of e.seconds has completed.
C8_FloodWaitHonoured ==
    [][/\ (pc = "except" /\ exc.cls = "FloodWaitError") =>
              retry_count' = retry_count + 1
       /\ (pc # "start" /\ pc' = "start" /\ exc.cls = "FloodWaitError") =>
              slept = exc.seconds]_vars

C8_Witness ==
    /\ pc = "loop_head"
    /\ exc = FloodWaitError(MaxFloodSeconds)
    /\ slept = MaxFloodSeconds
    /\ retry_count = 3

\* C9: once the loop of main() has been left and main() is over, the provider
\* connection is not held.
C9_TerminatedReleases == pc \in {"done", "aborted", "exited"} => ~connected

\* C10: when the loop of main() is left, the last logger record names the
\* reason.
C10_ReasonLogged == pc \in {"cleanup", "aborted"} => lastLog \in ReasonLogs

\* C11: every message routed while the client is online runs at most one
\* handler: the first binding, in the order built-ins then modules, whose
\* pattern matches; a message that matches none runs none.
C11_FirstMatchOnly ==
    dispatched.msg # <<>> =>
        /\ Len(dispatched.ran) <= 1
        /\ (dispatched.ran # <<>> =>
               \E i \in 1..Len(event_builders) :
                   /\ event_builders[i] = dispatched.ran[1]
                   /\ \A j \in 1..(i - 1) :
                          ~Matches(Regex(event_builders[j]), dispatched.msg))

\* C12: with the prefix ".", the messages ".check X", ".CHECK X" and ".ChEcK X"
\* each run the check handler, and "!check X" runs no handler.
C12_PrefixedKeywordAnyCase ==
    /\ (dispatched.msg \in {<<".", "c", "h", "e", "c", "k", " ", "X">>,
                            <<".", "C", "H", "E", "C", "K", " ", "X">>,
                            <<".", "C", "h", "E", "c", "K", " ", "X">>}
            => CheckPattern \in {dispatched.ran[i] : i \in 1..Len(dispatched.ran)})
    /\ (dispatched.msg = <<"!", "c", "h", "e", "c", "k", " ", "X">>
            => dispatched.ran = <<>>)

\* C13: load_all_commands attempts every listed module once, in sorted order;
\* a module without register() or whose import or register() raises is counted
\* as failed; every other module gets its binding, whatever failed before it;
\* loaded_count + failed_count is the number of modules listed.
C13_LoadFaultIsolated ==
    [][(pc = "load" /\ pc' = "api") =>
          LET r == loadResult'
              n == Len(r.listed)
              Good == {m \in {r.listed[i] : i \in 1..n} : ModuleKind[m] = "registers"}
          IN /\ Len(r.attempted) = n
             /\ {r.attempted[i] : i \in 1..n} = {r.listed[i] : i \in 1..n}
             /\ \A i, j \in 1..n :
                    i < j => FileRank[r.attempted[i]] < FileRank[r.attempted[j]]
             /\ r.loaded_count = Cardinality(Good)
             /\ r.failed_count = n - Cardinality(Good)
             /\ r.loaded_count + r.failed_count = n
             /\ \A m \in DOMAIN ModuleKind :
                    handlers'[ModulePattern(m)] =
                        handlers[ModulePattern(m)] + (IF m \in Good THEN 1 ELSE 0)
             /\ \A p \in BuiltinPatterns : handlers'[p] = handlers[p]
             /\ retry_count' = retry_count]_vars

C13_Witness ==
    /\ pc = "api"
    /\ loadResult.listed = <<"gamma", "alpha", "beta">>
    /\ loadResult.attempted = <<"alpha", "beta", "gamma">>
    /\ loadResult.loaded_count = 1
    /\ loadResult.failed_count = 2
    /\ handlers[ModulePattern("gamma")] = 2

\* C14: a call of the ingest endpoint whose Authorization header is not the
\* configured secret is answered 401, calls save_transaction never and leaves
\* the store as it was; a call with the secret is answered 500 when
\* save_transaction returns False and 200 with the trxid when it returns True.
C14_IngestAuth ==
    [][/\ \A t \in Workers : op'[t].name = "save" => op'[t].auth = MAIN_AUTH
       /\ (last'.thread \in Workers /\ last'.auth # MAIN_AUTH) =>
              /\ last'.op = "rejected"
              /\ last'.response.status = 401
              /\ UNCHANGED <<rows, writer, pending, conn, using, op, tpc>>
       /\ last'.op = "rejected" => last'.auth # MAIN_AUTH
       /\ last'.op = "save" =>
              /\ last'.auth = MAIN_AUTH
              /\ (last'.ok => /\ last'.response.status = 200
                              /\ last'.response.trxid = last'.trxid
                              /\ KeyPresent(rows', last'.trxid))
              /\ (~last'.ok => /\ last'.response.status = 500
                               /\ rows' = rows)]_vars

C14_Witness ==
    /\ last.op = "rejected"
    /\ last.response.status = 401
    /\ Cardinality(rows) = 1
    /\ \E t \in Workers : tpc[t] = "commit"

\* C15 (as stated): a thread's get_connection calls open at most one connection,
\* return that one every time, and no connection is returned to a thread other
\* than the one that opened it.
C15_CreatedOncePerThread ==
    /\ \A t \in Threads : created[t] <= 1
    /\ \A t \in Threads : using[t] # NoConn => using[t].by = t

\* C15 (amended): every get_connection call of a thread that returns, returns
\* the connection stored in that thread's slot; the slot is set at most once and
\* never changed; a connection is returned only to the thread that opened it; a
\* connection opened beyond the stored one is one whose set-up raised, which was
\* dropped without being returned.
C15_PooledPerThread ==
    [][/\ \A t \in Threads :
            /\ conn[t] # NoConn => conn'[t] = conn[t]
            /\ conn'[t] # NoConn => conn'[t].by = t
            /\ using'[t] # NoConn => (using'[t] = conn'[t] /\ using'[t].by = t)
            /\ (tpc'[t] \in {"execute", "commit"}) => using'[t] # NoConn
            /\ created'[t] <= 1 + faults'
            /\ (created'[t] > created[t] /\ conn'[t] = conn[t]) => faults' > faults
       /\ \A t1, t2 \in Threads :
            (t1 # t2 /\ using'[t1] # NoConn) => using'[t1] # using'[t2]]_vars

C15_Witness ==
    \E t \in Workers :
        /\ tpc[t] = "execute"
        /\ using[t] = conn[t]
        /\ created[t] = 2
        /\ Cardinality(rows) = 2
        /\ \A u \in Workers \ {t} : created[u] = 0 /\ tpc[u] = "idle"

\* C16: a failure of module discovery or loading stays inside
\* load_all_commands: main() goes on to start the API thread, retry_count keeps
\* its value and no retry or termination follows from it.
C16_LoadFailureAbsorbed ==
    [][/\ (pc = "load" => (pc' = "api" /\ retry_count' = retry_count))
       /\ (exc.cls = "OSError" => (retry_count' = retry_count /\ pc' \notin LoopEnded))]_vars

\* C17: once a shutdown signal has been raised in main(), the loop is left
\* without another connection attempt and without a change of retry_count; a
\* signal that arrives during a retry sleep ends the sleep before it completes;
\* and the process then exits.
C17_ShutdownTerminates ==
    /\ [][/\ (exc \notin ShutdownSignals /\ exc' \in ShutdownSignals
                  /\ pc \in {"flood_sleep", "backoff_sleep"}) =>
                 (pc' = "aborted" /\ slept' = slept)
          /\ (exc \notin ShutdownSignals /\ exc' \in ShutdownSignals
                  /\ pc \in {"start", "get_me", "running"}) =>
                 pc' = "except"
          /\ exc \in ShutdownSignals =>
                 /\ pc \in {"except"} \cup LoopEnded
                 /\ pc' \in LoopEnded
                 /\ exc' = exc
                 /\ connects' = connects
                 /\ retry_count' = retry_count
                 /\ slept' = slept]_vars
    /\ ((exc \in ShutdownSignals) ~> (pc = "exited"))

C17_Witness ==
    /\ pc = "exited"
    /\ exc \in ShutdownSignals
    /\ retry_count = 1
    /\ slept = 0
    /\ connects = 1

\* C18: whenever main() is between attempts or online, retry_count is the number
\* of rate-limit and unexpected failures since client.start() last succeeded.
C18_CountsFailuresSinceConnect ==
    pc \in {"loop_head", "flood_sleep", "backoff_sleep", "running"} =>
        retry_count = failures

\* C19: a run of the schema-creation block that raises makes its call return
\* False with the flag still unset, and a call that then finds the flag unset
\* enters the block again; once the flag is set it stays set and the block is
\* entered no more.
C19_InitRetryThenLatch ==
    [][/\ db_initialized => (db_initialized' /\ initRuns' = initRuns /\ initOk' = initOk)
       /\ lastInit'.value = "False" =>
              (~db_initialized' /\ init_lock' = NoThread /\ faults' = faults + 1)
       /\ \A t \in Threads :
            /\ (tpc[t] = "init_block" /\ tpc'[t] \notin {"init_block", "init_flag"}) =>
                   (lastInit' = [thread |-> t, value |-> "False"] /\ ~db_initialized')
            /\ (tpc[t] = "init_wait" /\ tpc'[t] # "init_wait") =>
                   IF db_initialized
                   THEN lastInit' = [thread |-> t, value |-> "True"]
                   ELSE tpc'[t] = "init_block" /\ initRuns' = initRuns + 1]_vars

C19_Witness ==
    /\ db_initialized
    /\ initRuns = 3
    /\ initOk = 1
    /\ \E t \in Workers : lastInit = [thread |-> t, value |-> "True"] /\ tpc[t] = "connect"

\* C20: a thread holds or uses a store connection only when the initialized flag
\* is set.
C20_ConnectionAfterInit ==
    \A t \in Threads : (conn[t] # NoConn \/ using[t] # NoConn) => db_initialized

\* C21: whatever the number of connections made and lost in one process, at
\* most one thread running the ingest endpoint has been started.
C21_ApiThreadOnce == apiThreads <= 1

\* C22: when run_until_disconnected() returns without raising, main() leaves the
\* loop for the clean-up with retry_count as it was, no exception pending, and
\* never calls client.start() again; the clean-up runs and the process exits.
C22_NormalDisconnectTerminates ==
    /\ [][/\ (pc = "running" /\ pc' \notin {"running", "except"}) =>
                 /\ pc' = "cleanup"
                 /\ exc' = NoExc
                 /\ retry_count' = retry_count
                 /\ failures' = failures
                 /\ connects' = connects
                 /\ slept' = slept
          /\ (pc \in LoopEnded /\ exc = NoExc) =>
                 /\ pc' \in LoopEnded
                 /\ exc' = NoExc
                 /\ retry_count' = retry_count
                 /\ connects' = connects
                 /\ slept' = slept
                 /\ (pc = "cleanup" => (pc' = "done" /\ ~connected'))]_vars
    /\ ((pc = "cleanup" /\ exc = NoExc) ~> (pc = "exited" /\ ~connected))

C22_Witness ==
    /\ pc = "exited"
    /\ exc = NoExc
    /\ retry_count = 0
    /\ connects = 2
    /\ ~connected
    /\ lastLog = "client_disconnected"

=============================================================================
